---- MODULE Spec2Model ----
(***************************************************************************)
(* The POST /render handler of the video-automation server.                *)
(*                                                                         *)
(* Two revisions of the handler are kept in the repository and both are    *)
(* modelled; `variant` says which one is deployed:                         *)
(*   "logger"  - src/unnamed/part_000 lines 53-186 (Phase 4, logger.js)    *)
(*   "console" - src/server.js lines 55-148 (Phase 2C, console.log)        *)
(* One request is followed from its arrival to the end of the handler.     *)
(* The rendering engine (bundle, selectComposition, renderMedia), the      *)
(* filesystem and Express are the environment: each of their calls either  *)
(* returns or throws.                                                      *)
(***************************************************************************)
EXTENDS Integers, Sequences, FiniteSets, TLC

VARIABLES
    variant,              \* which revision of the handler is deployed
    pc,                   \* position of the handler
    body,                 \* req.body
    bundledPath,          \* let bundledPath = null
    outputPath,           \* let outputPath = null
    videoId,              \* const videoId = videoData.videoId || ...
    disk,                 \* paths that exist on the local disk
    res,                  \* the response handed to Express (status 0: none yet)
    error,                \* the exception being propagated to the catch block
    escaped,              \* the exception that left the handler (rejected promise)
    trace,                \* engine, response and cleanup calls of this request, in order
    run,                  \* the progress values the engine reports during this render
    delivered,            \* number of onProgress callbacks made so far
    lastLoggedProgress,   \* let lastLoggedProgress = 0
    progressLog,          \* percentages of the progress lines written
    warnings,             \* cleanup warnings written
    req,                  \* method and path of the request being served
    nodeEnv,              \* process.env.NODE_ENV
    composition,          \* const composition = await selectComposition(...)
    clock,                \* Date.now()
    bundles,              \* number of bundle directories created so far
    jobs,                 \* the requests in flight when several are served at once
    assets,               \* videoData.videoAssets as given to VideoShort
    fps,                  \* const { fps } = useVideoConfig()
    scenes,               \* const scenes = videoAssets.map(...)
    currentFrame,         \* let currentFrame = 0
    branding              \* the channel-branding <Sequence> of the returned tree

\* the variables the handler of one request never touches
otherVars == <<jobs, assets, fps, scenes, currentFrame, branding>>

\* the variables of the handler of one request
handlerVars == <<pc, body, bundledPath, outputPath, videoId, res, error, escaped, trace,
                 run, delivered, lastLoggedProgress, progressLog, warnings,
                 req, composition>>

vars == <<variant, pc, body, bundledPath, outputPath, disk, res, error, escaped,
          trace, run, delivered, lastLoggedProgress, progressLog, warnings,
          req, nodeEnv, composition, clock, bundles,
          videoId, jobs, assets, fps, scenes, currentFrame, branding>>

----------------------------------------------------------------------------
(* Bounds *)

\* latest value of Date.now() while several requests are served
MaxClock == 2

\* how many times the cleanup step is run on one bundle location
MaxCleanups == 2

\* longest videoAssets list
MaxAssets == 3

\* longest exhaustively enumerated sequence of progress callbacks
MaxTicks == 3

----------------------------------------------------------------------------
(* JavaScript values of req.body and req.body.videoData *)

Variants == {"logger", "console"}

\* videoData as parsed from the JSON body: key missing, null, "", 0, false,
\* {}, an object with a videoId, an object with assets but no videoId, an
\* object whose videoId is the number 0, an object whose videoId is "../x",
\* an object whose videoId is "a/b"
VideoDataValues ==
    {"undefined", "null", "emptyString", "zero", "false",
     "emptyObject", "withId", "noId", "zeroId", "dotDotId", "nestedId"}

Truthy_NullOnly(v) == v # "null"

Truthy_NonEmpty(v) == v \in {"withId", "noId", "zeroId", "dotDotId", "nestedId"}

\* !videoData is false exactly for the truthy values; {} is truthy
Truthy(v) == v \notin {"undefined", "null", "emptyString", "zero", "false"}

\* req.body is undefined when no body was parsed
AbsentBody == [present |-> FALSE, videoData |-> "undefined"]

Bodies == {AbsentBody} \cup [present : {TRUE}, videoData : VideoDataValues]

\* a path is the sequence of its segments; null is the empty sequence
Null == <<>>

\* q is p or lies under p
IsPrefix(p, q) == Len(p) <= Len(q) /\ SubSeq(q, 1, Len(p)) = p

\* fs.existsSync(p)
Exists(d, p) == p \in d

\* what is left of the disk d when p and everything under it is removed
Remove(d, p) == {q \in d : ~IsPrefix(p, q)}

RmForce_Off == FALSE

\* fs.rmSync(path, { recursive: true, force: true }): force ignores a missing path
RmForce == TRUE

\* the outcomes of fs.rmSync(p, { recursive: true, force }) on the disk d:
\* nothing to remove (an error only without force), removed, or a failure of
\* the deletion that leaves the files in place
RmOutcomes(d, p) ==
    IF ~Exists(d, p)
    THEN {[disk |-> d, err |-> IF RmForce THEN "none" ELSE "ENOENT: rmSync"]}
    ELSE {[disk |-> Remove(d, p), err |-> "none"],
          [disk |-> d, err |-> "EBUSY: rmSync"]}

\* location returned by the n-th call of bundle(): a fresh directory
BundleDirOf(n) == <<"tmp", "remotion-webpack-bundle-" \o ToString(n)>>

\* the directory and the files bundle() writes into it
BundleFiles(dir) == {dir, Append(dir, "index.html"), Append(dir, "bundle.js")}

\* videoData.videoId of each modelled videoData, as it is printed
VideoIdField(vd) ==
    IF vd = "withId" THEN "v1"
    ELSE IF vd = "zeroId" THEN "0"
    ELSE IF vd = "dotDotId" THEN "../x"
    ELSE IF vd = "nestedId" THEN "a/b"
    ELSE "undefined"

\* a missing videoId and the number 0 are falsy
VideoIdTruthy(vd) == vd \in {"withId", "dotDotId", "nestedId"}

\* `video_${Date.now()}`
SynthesizedId(t) == "video_" \o ToString(t)

VideoId_Always(vd, t) == SynthesizedId(t)

\* videoData.videoId || `video_${Date.now()}`
VideoId(vd, t) ==
    IF VideoIdTruthy(vd) THEN VideoIdField(vd) ELSE SynthesizedId(t)

RenderOutput_Elsewhere(path) == {<<"out", "video.mp4">>}

\* renderMedia({ ..., outputLocation: outputPath }) writes the encoded, non-empty
\* file at outputLocation
RenderOutput(path) == {path}

\* path.join(__dirname, 'output')
OutputDir == <<"output">>

\* the segments of `${videoId}.mp4` between path separators
FileSegments(id) ==
    IF id = "../x" THEN <<"..", "x.mp4">>
    ELSE IF id = "a/b" THEN <<"a", "b.mp4">>
    ELSE <<id \o ".mp4">>

\* path.normalize: a ".." segment removes the segment before it
RECURSIVE Normalize(_, _)
Normalize(kept, rest) ==
    IF rest = <<>> THEN kept
    ELSE IF Head(rest) = ".." /\ kept # <<>> /\ kept[Len(kept)] # ".."
    THEN Normalize(SubSeq(kept, 1, Len(kept) - 1), Tail(rest))
    ELSE Normalize(Append(kept, Head(rest)), Tail(rest))

OutputPathOf_Fixed(id) == Append(OutputDir, "video.mp4")

\* path.join(outputDir, `${videoId}.mp4`): the segments are joined and normalized
OutputPathOf(id) == Normalize(<<>>, OutputDir \o FileSegments(id))

----------------------------------------------------------------------------
(* Responses *)

\* a field that is absent (or undefined) in the JSON body is "" or <<>> here
NoResponse ==
    [status |-> 0, state |-> "", error |-> "", message |-> "", stack |-> "",
     echoes |-> FALSE, received |-> AbsentBody,
     videoId |-> "", outputPath |-> Null, durationInFrames |-> 0, fps |-> 0,
     path |-> "", endpoints |-> <<>>]

\* res.json({ status: 'Server is running!', service: ..., endpoints: {...} })
RootStatus == [NoResponse EXCEPT !.status = 200, !.state = "Server is running!"]

\* res.json({ status: 'ok', service: ..., timestamp: ..., ... })
HealthStatus == [NoResponse EXCEPT !.status = 200, !.state = "ok"]

\* res.status(400).json({ error: 'videoData is required', received: req.body })
BadRequest(b) ==
    [NoResponse EXCEPT !.status = 400, !.error = "videoData is required",
                       !.echoes = TRUE, !.received = b]

\* res.json({ status: 'success', message: ..., videoId, outputPath, composition: {...} })
Success(id, path, comp) ==
    [NoResponse EXCEPT !.status = 200, !.state = "success",
                       !.message = "Video rendered successfully!",
                       !.videoId = id, !.outputPath = path,
                       !.durationInFrames = comp.durationInFrames, !.fps = comp.fps]

ErrorMessage_None(e) == ""

\* message: error.message
ErrorMessage(e) == e

\* error.stack
StackOf(e) == "Error: " \o e \o "\n    at <anonymous>"

ExposedStack_Always(env, e) == StackOf(e)

\* stack: process.env.NODE_ENV === 'production' ? undefined : error.stack
ExposedStack(env, e) == IF env = "production" THEN "" ELSE StackOf(e)

\* res.status(500).json({ error: 'Video rendering failed', message: error.message,
\*                        stack: ..., renderTime: ... })
Failure(e) ==
    [NoResponse EXCEPT !.status = 500, !.error = "Video rendering failed",
                       !.message = ErrorMessage(e), !.stack = ExposedStack(nodeEnv, e)]

\* res.status(500).json({ error: 'Internal server error', message: error.message })
InternalError(e) ==
    [NoResponse EXCEPT !.status = 500, !.error = "Internal server error",
                       !.message = ErrorMessage(e)]

KnownEndpoints == <<"/", "/health", "/render (POST)">>

\* res.status(404).json({ error: 'Not found', path: req.path, availableEndpoints: [...] })
NotFound(path) ==
    [NoResponse EXCEPT !.status = 404, !.error = "Not found",
                       !.path = path, !.endpoints = KnownEndpoints]

----------------------------------------------------------------------------
(* Errors thrown into the handler *)

NoError == "none"
DestructureError == "TypeError: Cannot destructure property 'videoData' of 'req.body'"
ReadBodyError == "TypeError: Cannot read properties of undefined (reading 'videoData')"
BundleError == "BundleError"
CompositionError == "CompositionError"
MkdirError == "EACCES: mkdir output"
RenderError == "RenderError"
RespondError == "error while building the success response"
CleanupError == "EBUSY: rmSync"

----------------------------------------------------------------------------
(* Progress throttling *)

\* progress values are fractions of 1 in thousandths
ProgressValues == {50, 95, 100, 120, 1000}

\* Math.round(progress * 100)
Percent(p) == (p * 100 + 500) \div 1000

\* the progress sequence of the throttling scenario: 0.05 0.12 0.21 0.33 0.41
SimSeq == <<50, 120, 210, 330, 410>>

\* a render that reports every 5 points from 0 to 1
FineRun == [i \in 1..21 |-> (i - 1) * 50]

ProgressRuns ==
    UNION {[1..k -> ProgressValues] : k \in 0..MaxTicks} \cup {SimSeq, FineRun}

LogStep == 10

\* logger:  if (percent >= lastLoggedProgress + 10)
\* console: if (percent % 10 === 0)
ShouldLog(v, percent, last) ==
    IF v = "logger" THEN percent >= last + LogStep ELSE percent % LogStep = 0

NextLastLogged_Stale(v, percent, last) == last

NextLastLogged_Floor(v, percent, last) ==
    IF v = "logger" THEN (percent \div LogStep) * LogStep ELSE last

\* logger:  lastLoggedProgress = percent
\* console: there is no such variable
NextLastLogged(v, percent, last) ==
    IF v = "logger" THEN percent ELSE last

----------------------------------------------------------------------------
(* The composition registered by RemotionRoot *)

NoComposition == [id |-> "", width |-> 0, height |-> 0, fps |-> 0, durationInFrames |-> 0]

\* <Composition id="VideoShort" durationInFrames={3600} fps={60} width={1080}
\*   height={1920} ... />
RegisteredComposition ==
    [id |-> "VideoShort", width |-> 1080, height |-> 1920, fps |-> 60,
     durationInFrames |-> 3600]

\* selectComposition({ serveUrl, id: 'VideoShort', inputProps: { videoData } }):
\* the composition declares no calculateMetadata, so the input props do not
\* change its metadata
SelectedComposition(vd) == RegisteredComposition

\* the durations of videoData.videoAssets, in hundredths of a second
AssetsOf(vd) ==
    IF vd = "withId" THEN <<200>>
    ELSE IF vd = "noId" THEN <<150, 250>>
    ELSE IF vd = "zeroId" THEN <<100>>
    ELSE <<>>

----------------------------------------------------------------------------
(* Routing *)

NodeEnvs == {"production", "development"}

NoRequest == [method |-> "", path |-> ""]

Requests == [method : {"GET", "POST"}, path : {"/", "/health", "/render", "/videos"}]

Route_AnyMethod(r) ==
    IF r.path = "/" THEN "root"
    ELSE IF r.path = "/health" THEN "health"
    ELSE IF r.path = "/render" THEN "render"
    ELSE "notFound"

\* app.get('/'), app.get('/health'), app.post('/render'), then the 404 handler
Route(r) ==
    IF r.method = "GET" /\ r.path = "/" THEN "root"
    ELSE IF r.method = "GET" /\ r.path = "/health" THEN "health"
    ELSE IF r.method = "POST" /\ r.path = "/render" THEN "render"
    ELSE "notFound"

HasErrorHandler_None(v) == FALSE

\* only the logger revision registers app.use((error, req, res, next) => ...)
HasErrorHandler(v) == v = "logger"

----------------------------------------------------------------------------
(* The handler *)

AfterStepFailure_Continue(step) ==
    IF step = "bundle" THEN "select"
    ELSE IF step = "selectComposition" THEN "mkdir" ELSE "respond"

\* a rejected await leaves the try block for the catch block
AfterStepFailure(step) == "catch"

AfterCatch_Return == "done"

\* } catch (error) { ... } finally {
AfterCatch == "finally"

SwallowCleanupError_No == FALSE

\* try { fs.rmSync(...) } catch (cleanupError) { (warn) }
SwallowCleanupError == TRUE


\* the server after app.listen, before any request
ServerIdle ==
    /\ variant \in Variants
    /\ nodeEnv \in NodeEnvs
    /\ req = NoRequest
    /\ composition = NoComposition
    /\ videoId = ""
    /\ clock = 0
    /\ bundles = 0
    /\ pc = "idle"
    /\ body = AbsentBody
    /\ bundledPath = Null
    /\ outputPath = Null
    /\ disk = {}
    /\ res = NoResponse
    /\ error = NoError
    /\ escaped = NoError
    /\ trace = <<>>
    /\ run = <<>>
    /\ delivered = 0
    /\ lastLoggedProgress = 0
    /\ progressLog = <<>>
    /\ warnings = <<>>

\* the two revisions of VideoShort
VideoRevisions == {"Video.jsx", "part_001"}

\* VideoShort has not returned its tree yet
NotReturned == [state |-> "pending", rev |-> "none", from |-> 0, durationInFrames |-> 0]

\* VideoShort is not being evaluated
VideoIdle ==
    /\ assets = <<>>
    /\ fps = 0
    /\ scenes = <<>>
    /\ currentFrame = 0
    /\ branding = NotReturned

Init ==
    /\ ServerIdle
    /\ VideoIdle
    /\ jobs = <<>>

\* app.get('/', (req, res) => { res.json({ status: 'Server is running!', ... }) })
GetRoot ==
    /\ pc = "idle"
    /\ \E r \in Requests : Route(r) = "root" /\ req' = r
    /\ res' = RootStatus
    /\ trace' = Append(trace, "res:200")
    /\ pc' = "done"
    /\ UNCHANGED <<variant, nodeEnv, clock, bundles, composition, videoId, otherVars>>
    /\ UNCHANGED <<body, bundledPath, outputPath, disk, error, escaped,
                   run, delivered, lastLoggedProgress, progressLog, warnings>>

\* app.get('/health', (req, res) => { res.json({ status: 'ok', ... }) })
GetHealth ==
    /\ pc = "idle"
    /\ \E r \in Requests : Route(r) = "health" /\ req' = r
    /\ res' = HealthStatus
    /\ trace' = Append(trace, "res:200")
    /\ pc' = "done"
    /\ UNCHANGED <<variant, nodeEnv, clock, bundles, composition, videoId, otherVars>>
    /\ UNCHANGED <<body, bundledPath, outputPath, disk, error, escaped,
                   run, delivered, lastLoggedProgress, progressLog, warnings>>

\* app.use((req, res) => { res.status(404).json({ error: 'Not found', ... }) })
Unmatched ==
    /\ pc = "idle"
    /\ \E r \in Requests :
         /\ Route(r) = "notFound"
         /\ req' = r
         /\ res' = NotFound(r.path)
    /\ trace' = Append(trace, "res:404")
    /\ pc' = "done"
    /\ UNCHANGED <<variant, nodeEnv, clock, bundles, composition, videoId, otherVars>>
    /\ UNCHANGED <<body, bundledPath, outputPath, disk, error, escaped,
                   run, delivered, lastLoggedProgress, progressLog, warnings>>

\* app.use((error, req, res, next) => { res.status(500).json({ error:
\*   'Internal server error', message: error.message }) }): reached when the
\* promise of the async handler is rejected and the rejection is forwarded
ErrorHandler ==
    /\ pc = "done"
    /\ escaped # NoError
    /\ HasErrorHandler(variant)
    /\ res.status = 0
    /\ res' = InternalError(escaped)
    /\ trace' = Append(trace, "res:500")
    /\ pc' = "handled"
    /\ UNCHANGED <<variant, nodeEnv, clock, req, bundles, composition, videoId, otherVars>>
    /\ UNCHANGED <<body, bundledPath, outputPath, disk, error, escaped,
                   run, delivered, lastLoggedProgress, progressLog, warnings>>

\* app.post('/render', async (req, res) => { ... let bundledPath = null; ...
PostRender(b) ==
    /\ pc = "idle"
    /\ \E r \in Requests : Route(r) = "render" /\ req' = r
    /\ pc' = "try"
    /\ body' = b
    /\ UNCHANGED <<variant, nodeEnv, clock, bundles, composition, videoId, otherVars>>
    /\ UNCHANGED <<bundledPath, outputPath, disk, res, error, escaped,
                   trace, run, delivered, lastLoggedProgress, progressLog, warnings>>

\* const { videoData } = req.body; if (!videoData) return res.status(400).json(...)
Validate ==
    /\ pc = "try"
    /\ IF ~body.present
       THEN /\ error' = DestructureError
            /\ pc' = "catch"
            /\ UNCHANGED <<res, trace>>
       ELSE IF ~Truthy(body.videoData)
       THEN /\ res' = BadRequest(body)
            /\ trace' = Append(trace, "res:400")
            /\ pc' = "finally"
            /\ UNCHANGED error
       ELSE /\ pc' = "bundle"
            /\ UNCHANGED <<res, trace, error>>
    /\ UNCHANGED <<variant, nodeEnv, clock, req, bundles, composition, videoId, otherVars>>
    /\ UNCHANGED <<body, bundledPath, outputPath, disk, escaped,
                   run, delivered, lastLoggedProgress, progressLog, warnings>>

\* bundledPath = await bundle({ entryPoint: remotionRoot, ... })   (the call)
BundleCall ==
    /\ pc = "bundle"
    /\ trace' = Append(trace, "bundle")
    /\ pc' = "bundling"
    /\ UNCHANGED <<variant, nodeEnv, clock, req, bundles, composition, videoId, otherVars>>
    /\ UNCHANGED <<body, bundledPath, outputPath, disk, res, error, escaped,
                   run, delivered, lastLoggedProgress, progressLog, warnings>>

\* bundle() resolves with the location of the bundle it wrote
BundleReturn ==
    /\ pc = "bundling"
    /\ bundledPath' = BundleDirOf(bundles)
    /\ disk' = disk \cup BundleFiles(BundleDirOf(bundles))
    /\ bundles' = bundles + 1
    /\ trace' = Append(trace, "bundle:ok")
    /\ pc' = "select"
    /\ UNCHANGED <<variant, nodeEnv, clock, req, composition, videoId, otherVars>>
    /\ UNCHANGED <<body, outputPath, res, error, escaped,
                   run, delivered, lastLoggedProgress, progressLog, warnings>>

\* bundle() rejects: bundledPath keeps its value null
BundleThrow ==
    /\ pc = "bundling"
    /\ error' = BundleError
    /\ trace' = Append(trace, "bundle:err")
    /\ pc' = AfterStepFailure("bundle")
    /\ UNCHANGED <<variant, nodeEnv, clock, req, bundles, composition, videoId, otherVars>>
    /\ UNCHANGED <<body, bundledPath, outputPath, disk, res, escaped,
                   run, delivered, lastLoggedProgress, progressLog, warnings>>

\* const composition = await selectComposition({ serveUrl: bundledPath, ... })
SelectCall ==
    /\ pc = "select"
    /\ trace' = Append(trace, "selectComposition")
    /\ pc' = "selecting"
    /\ UNCHANGED <<variant, nodeEnv, clock, req, bundles, composition, videoId, otherVars>>
    /\ UNCHANGED <<body, bundledPath, outputPath, disk, res, error, escaped,
                   run, delivered, lastLoggedProgress, progressLog, warnings>>

SelectReturn ==
    /\ pc = "selecting"
    /\ composition' = SelectedComposition(body.videoData)
    /\ trace' = Append(trace, "selectComposition:ok")
    /\ pc' = "mkdir"
    /\ UNCHANGED <<variant, nodeEnv, clock, req, bundles, videoId, otherVars>>
    /\ UNCHANGED <<body, bundledPath, outputPath, disk, res, error, escaped,
                   run, delivered, lastLoggedProgress, progressLog, warnings>>

SelectThrow ==
    /\ pc = "selecting"
    /\ error' = CompositionError
    /\ trace' = Append(trace, "selectComposition:err")
    /\ pc' = AfterStepFailure("selectComposition")
    /\ UNCHANGED <<variant, nodeEnv, clock, req, bundles, composition, videoId, otherVars>>
    /\ UNCHANGED <<body, bundledPath, outputPath, disk, res, escaped,
                   run, delivered, lastLoggedProgress, progressLog, warnings>>

\* if (!fs.existsSync(outputDir)) fs.mkdirSync(outputDir, { recursive: true });
\* const videoId = ...; outputPath = path.join(outputDir, `${videoId}.mp4`);
EnsureOutputDir ==
    /\ pc = "mkdir"
    /\ \E ok \in BOOLEAN :
        IF ok
        THEN /\ disk' = disk \cup {OutputDir}
             /\ videoId' = VideoId(body.videoData, clock)
             /\ outputPath' = OutputPathOf(VideoId(body.videoData, clock))
             /\ pc' = "render"
             /\ UNCHANGED error
        ELSE /\ error' = MkdirError
             /\ pc' = "catch"
             /\ UNCHANGED <<disk, outputPath, videoId>>
    /\ UNCHANGED <<variant, nodeEnv, clock, req, bundles, composition, otherVars>>
    /\ UNCHANGED <<body, bundledPath, res, escaped, trace,
                   run, delivered, lastLoggedProgress, progressLog, warnings>>

\* let lastLoggedProgress = 0; await renderMedia({ ..., onProgress })   (the call)
RenderCall ==
    /\ pc = "render"
    /\ \E r \in ProgressRuns : run' = r
    /\ delivered' = 0
    /\ lastLoggedProgress' = 0
    /\ trace' = Append(trace, "renderMedia")
    /\ pc' = "rendering"
    /\ UNCHANGED <<variant, nodeEnv, clock, req, bundles, composition, videoId, otherVars>>
    /\ UNCHANGED <<body, bundledPath, outputPath, disk, res, error, escaped,
                   progressLog, warnings>>

\* onProgress: ({ progress }) => { const percent = Math.round(progress * 100); ... }
OnProgress ==
    /\ pc = "rendering"
    /\ delivered < Len(run)
    /\ delivered' = delivered + 1
    /\ LET percent == Percent(run[delivered + 1]) IN
        IF ShouldLog(variant, percent, lastLoggedProgress)
        THEN /\ progressLog' = Append(progressLog, percent)
             /\ lastLoggedProgress' = NextLastLogged(variant, percent, lastLoggedProgress)
        ELSE UNCHANGED <<progressLog, lastLoggedProgress>>
    /\ UNCHANGED <<variant, nodeEnv, clock, req, bundles, composition, videoId, otherVars>>
    /\ UNCHANGED <<pc, body, bundledPath, outputPath, disk, res, error, escaped,
                   trace, run, warnings>>

\* renderMedia() resolves after its last callback; the file is at outputLocation
RenderReturn ==
    /\ pc = "rendering"
    /\ delivered = Len(run)
    /\ disk' = disk \cup RenderOutput(outputPath)
    /\ trace' = Append(trace, "renderMedia:ok")
    /\ pc' = "respond"
    /\ UNCHANGED <<variant, nodeEnv, clock, req, bundles, composition, videoId, otherVars>>
    /\ UNCHANGED <<body, bundledPath, outputPath, res, error, escaped,
                   run, delivered, lastLoggedProgress, progressLog, warnings>>

\* renderMedia() rejects, at any point of the render
RenderThrow ==
    /\ pc = "rendering"
    /\ error' = RenderError
    /\ trace' = Append(trace, "renderMedia:err")
    /\ pc' = AfterStepFailure("renderMedia")
    /\ UNCHANGED <<variant, nodeEnv, clock, req, bundles, composition, videoId, otherVars>>
    /\ UNCHANGED <<body, bundledPath, outputPath, disk, res, escaped,
                   run, delivered, lastLoggedProgress, progressLog, warnings>>

\* const renderTime = ...; (log) ; res.json({ status: 'success', ... })
\* an exception here is raised before anything is sent
RespondSuccess ==
    /\ pc = "respond"
    /\ \E ok \in BOOLEAN :
        IF ok
        THEN /\ res' = Success(videoId, outputPath, composition)
             /\ trace' = Append(trace, "res:200")
             /\ pc' = "finally"
             /\ UNCHANGED error
        ELSE /\ error' = RespondError
             /\ pc' = "catch"
             /\ UNCHANGED <<res, trace>>
    /\ UNCHANGED <<variant, nodeEnv, clock, req, bundles, composition, videoId, otherVars>>
    /\ UNCHANGED <<body, bundledPath, outputPath, disk, escaped,
                   run, delivered, lastLoggedProgress, progressLog, warnings>>

\* the logger revision evaluates req.body.videoData in its catch block
CatchReadsBody(v) == v = "logger"

\* } catch (error) { (log) ; res.status(500).json({ ... message: error.message ... }) }
Catch ==
    /\ pc = "catch"
    /\ IF CatchReadsBody(variant) /\ ~body.present
       THEN /\ escaped' = ReadBodyError
            /\ UNCHANGED <<res, trace>>
       ELSE /\ res' = Failure(error)
            /\ trace' = Append(trace, "res:500")
            /\ UNCHANGED escaped
    /\ pc' = AfterCatch
    /\ UNCHANGED <<variant, nodeEnv, clock, req, bundles, composition, videoId, otherVars>>
    /\ UNCHANGED <<body, bundledPath, outputPath, disk, error,
                   run, delivered, lastLoggedProgress, progressLog, warnings>>

NeedsCleanup_Never(p) == FALSE

\* if (bundledPath) { ... }
NeedsCleanup(p) == p # Null

\* } finally { if (bundledPath) { try { fs.rmSync(bundledPath, { recursive: true,
\*   force: true }) } catch (cleanupError) { (warn) } } }
Finally ==
    /\ pc = "finally"
    /\ IF NeedsCleanup(bundledPath)
       THEN \E o \in RmOutcomes(disk, bundledPath) :
              /\ trace' = Append(trace, "rmSync")
              /\ disk' = o.disk
              /\ warnings' = IF o.err = NoError THEN warnings
                                                ELSE Append(warnings, o.err)
              /\ escaped' = IF o.err = NoError \/ SwallowCleanupError
                               THEN escaped ELSE o.err
       ELSE UNCHANGED <<trace, disk, warnings, escaped>>
    /\ pc' = "done"
    /\ UNCHANGED <<variant, nodeEnv, clock, req, bundles, composition, videoId, otherVars>>
    /\ UNCHANGED <<body, bundledPath, outputPath, res, error,
                   run, delivered, lastLoggedProgress, progressLog>>

Next ==
    \/ GetRoot
    \/ GetHealth
    \/ Unmatched
    \/ ErrorHandler
    \/ \E b \in Bodies : PostRender(b)
    \/ Validate
    \/ BundleCall
    \/ BundleReturn
    \/ BundleThrow
    \/ SelectCall
    \/ SelectReturn
    \/ SelectThrow
    \/ EnsureOutputDir
    \/ RenderCall
    \/ OnProgress
    \/ RenderReturn
    \/ RenderThrow
    \/ RespondSuccess
    \/ Catch
    \/ Finally

Spec == Init /\ [][Next]_vars

\* the steps Node takes once a request is being handled: the continuation of
\* the async handler after each await, the callbacks of the engine, and the
\* error middleware
HandlerStep ==
    \/ Validate
    \/ BundleCall
    \/ BundleReturn
    \/ BundleThrow
    \/ SelectCall
    \/ SelectReturn
    \/ SelectThrow
    \/ EnsureOutputDir
    \/ RenderCall
    \/ OnProgress
    \/ RenderReturn
    \/ RenderThrow
    \/ RespondSuccess
    \/ Catch
    \/ Finally
    \/ ErrorHandler

\* the event loop keeps running the handler, and every engine step settles
SpecLive == Spec /\ WF_vars(HandlerStep)

----------------------------------------------------------------------------
(* Derived views of the state *)

EngineSteps == <<"bundle", "selectComposition", "renderMedia">>

IsEngineStep(e) == e \in {"bundle", "selectComposition", "renderMedia"}

IsResponse(e) == e \in {"res:200", "res:400", "res:404", "res:500"}

EngineCalls == SelectSeq(trace, IsEngineStep)

Responses == SelectSeq(trace, IsResponse)

Count(e) == Cardinality({i \in 1..Len(trace) : trace[i] = e})

Position(e) == CHOOSE i \in 1..Len(trace) : trace[i] = e

Responded == res.status # 0

IsStepFailure(e) == e \in {"bundle:err", "selectComposition:err", "renderMedia:err"}

Falsy == {"undefined", "null", "emptyString", "zero", "false"}

\* the rounded percentages of the callbacks of this render
Percents == [i \in 1..Len(run) |-> Percent(run[i])]

\* the highest 10-point threshold reached by the first n callbacks
Reached(n) ==
    IF n = 0 THEN 0
    ELSE LET m == CHOOSE x \in {Percents[i] : i \in 1..n} :
                      \A y \in {Percents[i] : i \in 1..n} : y <= x
         IN m \div LogStep

----------------------------------------------------------------------------
(* Claims *)

\* C1: a POST /render whose body has no videoData is answered with a 400 that
\* carries an error field, and no engine step (bundle, selectComposition,
\* renderMedia) is invoked for it.
C1_MissingVideoData ==
    (body.present /\ body.videoData = "undefined")
        => /\ EngineCalls = <<>>
           /\ pc \in {"finally", "done"}
                => res.status = 400 /\ res.error = "videoData is required"

C1_Witness ==
    /\ pc = "done"
    /\ body.present /\ body.videoData = "undefined"
    /\ res.status = 400

\* C2 (as claimed): once the response of a job has been sent, the bundle
\* artifact of that job is no longer on disk.
C2_RemovedBeforeResponse ==
    (Responded /\ bundledPath # Null) => bundledPath \notin disk

\* C2 (amended): for a job whose bundle step returned a location, the deletion
\* of the bundle artifact is attempted once, after the response has been sent
\* and before the handler finishes; unless that deletion failed, the artifact
\* is gone when the handler finishes.
C2_RemovedAfterResponse ==
    /\ Count("rmSync") > 0 => Responded /\ Len(Responses) = 1
    /\ (pc = "done" /\ bundledPath # Null)
         => /\ Count("rmSync") = 1
            /\ Len(Responses) = 1
            /\ Position(Responses[1]) < Position("rmSync")
            /\ warnings = <<>> => bundledPath \notin disk

C2_Witness ==
    /\ pc = "done"
    /\ res.status = 500
    /\ bundledPath # Null
    /\ bundledPath \notin disk

\* C3 (as claimed): for the progress sequence 0.05 0.12 0.21 0.33 0.41 the
\* logger revision writes exactly 4 progress lines.
C3_FourLines ==
    (variant = "logger" /\ run = SimSeq /\ delivered = Len(run))
        => Len(progressLog) = 4

\* C3 (amended): for the progress sequence 0.05 0.12 0.21 0.33 0.41 the logger
\* revision writes exactly 2 progress lines, 12% and 33%: 21 and 41 are less
\* than 10 points above the last logged percentage.
C3_TwoLines ==
    (variant = "logger" /\ run = SimSeq /\ delivered = Len(run))
        => progressLog = <<12, 33>>

C3_Witness ==
    /\ variant = "logger"
    /\ run = SimSeq
    /\ delivered = 5
    /\ Len(progressLog) = 2

\* C4: when the bundle step has returned a location, the recursive deletion of
\* that location is attempted exactly once before the handler finishes, on
\* every exit path, and never more than once.
C4_CleanupExactlyOnce ==
    /\ Count("rmSync") <= 1
    /\ (pc = "done" /\ bundledPath # Null) => Count("rmSync") = 1

C4_Witness ==
    /\ pc = "done"
    /\ error = RespondError
    /\ bundledPath # Null
    /\ Count("rmSync") = 1

\* C5: whatever is thrown inside the handler, the handler answers 500 with
\* error "Video rendering failed" and the thrown error's message, and no
\* exception leaves the handler.
C5_FinalErrorBoundary ==
    /\ escaped = NoError
    /\ (pc = "done" /\ error # NoError)
         => /\ res.status = 500
            /\ res.error = "Video rendering failed"
            /\ res.message = error

\* C6: the engine steps run in the order bundle, selectComposition,
\* renderMedia, each at most once; a step is invoked only after the previous
\* one returned successfully, and after a failed step no step is invoked.
C6_StrictOrder ==
    /\ \E k \in 0..Len(EngineSteps) : EngineCalls = SubSeq(EngineSteps, 1, k)
    /\ \A i \in 1..Len(trace) :
         /\ trace[i] = "selectComposition"
              => \E j \in 1..(i - 1) : trace[j] = "bundle:ok"
         /\ trace[i] = "renderMedia"
              => \E j \in 1..(i - 1) : trace[j] = "selectComposition:ok"
         /\ IsStepFailure(trace[i])
              => \A j \in (i + 1)..Len(trace) : ~IsEngineStep(trace[j])

C6_Witness ==
    /\ pc = "done"
    /\ Count("selectComposition:err") = 1
    /\ EngineCalls = <<"bundle", "selectComposition">>

\* C7 (as claimed): a request whose videoData is absent, null, {} or "" is
\* answered with a 400 that echoes the body, and the pipeline is not started.
C7_EmptyRejected ==
    (pc = "done" /\ body.present
       /\ body.videoData \in {"undefined", "null", "emptyObject", "emptyString"})
        => /\ res.status = 400
           /\ res.echoes /\ res.received = body
           /\ EngineCalls = <<>>

\* C7 (amended): a request whose videoData is falsy (absent, null, "", 0,
\* false) is answered with a 400 that echoes the body, and the pipeline is not
\* started; any other videoData, the empty object {} included, passes the
\* validation and the bundle step is invoked.
C7_FalsyRejected ==
    (pc = "done" /\ body.present)
        => IF body.videoData \in Falsy
           THEN /\ res.status = 400
                /\ res.echoes /\ res.received = body
                /\ EngineCalls = <<>>
           ELSE /\ res.status # 400
                /\ EngineCalls # <<>>

C7_Witness ==
    /\ pc = "done"
    /\ body.present /\ body.videoData = "emptyString"
    /\ res.status = 400
    /\ res.received = body

\* C8: the cleanup step never changes the response and never lets an
\* exception out: the response and the escaped exception are the same after
\* the finally block as before it, whether the deletion succeeded or threw.
C8_CleanupKeepsResponse ==
    [][pc = "finally" => (res' = res /\ escaped' = escaped)]_vars

C8_Witness ==
    /\ pc = "done"
    /\ warnings = <<CleanupError>>
    /\ bundledPath \in disk
    /\ res.status = 200
    /\ escaped = NoError

\* C9: in the logger revision a progress line is written only for a
\* percentage at least 10 points above the last logged one (initially 0), so
\* the logged percentages increase by at least 10 each and there are at most
\* 10 of them.
C9_Throttled ==
    variant = "logger"
        => /\ \A i \in 1..Len(progressLog) :
                progressLog[i] >= (IF i = 1 THEN 0 ELSE progressLog[i - 1]) + 10
           /\ Len(progressLog) <= 10
           /\ lastLoggedProgress =
                (IF progressLog = <<>> THEN 0 ELSE progressLog[Len(progressLog)])

C9_Witness ==
    /\ variant = "logger"
    /\ run = FineRun
    /\ delivered = Len(run)
    /\ Len(progressLog) = 10

\* C10: in the console revision no two progress lines are written unless
\* progress advanced by at least 10 points between them, and every callback
\* that reaches a new 10-point threshold writes a line.
C10_OnePerTenPoints ==
    /\ [](variant = "console"
            => \A i \in 2..Len(progressLog) : progressLog[i] >= progressLog[i - 1] + 10)
    /\ [][(/\ variant = "console"
           /\ delivered' = delivered + 1
           /\ Reached(delivered + 1) > Reached(delivered))
              => Len(progressLog') = Len(progressLog) + 1]_vars

\* frames of a scene of d hundredths of a second: Math.floor(asset.duration * fps)
SceneFrames(d, f) == (d * f) \div 100

RECURSIVE SumFrames(_, _)
SumFrames(ds, f) ==
    IF ds = <<>> THEN 0 ELSE SceneFrames(Head(ds), f) + SumFrames(Tail(ds), f)

\* C13: when a job is answered with the success response, the file at the
\* reported outputPath exists, and it still exists after the cleanup step,
\* which removes only the bundle artifact.
C13_OutputKept ==
    res.state = "success"
        => /\ res.outputPath = outputPath
           /\ Exists(disk, res.outputPath)
           /\ pc = "done" => \A q \in disk : ~IsPrefix(bundledPath, q) \/ warnings # <<>>

C13_Witness ==
    /\ pc = "done"
    /\ res.state = "success"
    /\ Count("rmSync") = 1
    /\ warnings = <<>>
    /\ Exists(disk, res.outputPath)

\* C14 (as claimed): every failure response (400, 404, 500) has an error field
\* and a message field.
C14_ErrorAndMessage ==
    res.status >= 400 => res.error # "" /\ res.message # ""

\* C14 (amended): every failure response has an error field; a message field
\* is present exactly in the 500 responses (render failure and generic error
\* handler); the 400 response carries the received body instead and the 404
\* response the path and the known endpoints.
C14_ErrorAlwaysMessageOn500 ==
    res.status >= 400
        => /\ res.error # ""
           /\ res.message # "" <=> res.status = 500
           /\ res.status = 400 => res.echoes
           /\ res.status = 404 => res.path = req.path /\ res.endpoints # <<>>

C14_Witness ==
    /\ res.status = 400
    /\ res.error = "videoData is required"
    /\ res.message = ""

\* C15: the 500 response of the /render handler carries the stack of the
\* thrown error exactly when NODE_ENV is not "production".
C15_StackOutsideProduction ==
    (res.status = 500 /\ res.error = "Video rendering failed")
        => IF nodeEnv = "production"
           THEN res.stack = ""
           ELSE res.stack = StackOf(error) /\ res.stack # ""

C15_Witness ==
    /\ nodeEnv = "production"
    /\ res.status = 500
    /\ res.error = "Video rendering failed"
    /\ error = RenderError
    /\ res.stack = ""

\* C16: for a successful job the reported durationInFrames is the configured
\* fps times the total scene duration of the request, with or without the 3
\* seconds of branding.
C16_FramesFollowScenes ==
    res.state = "success"
        => LET n == SumFrames(AssetsOf(body.videoData), res.fps)
           IN res.durationInFrames \in {n, n + 3 * res.fps}

----------------------------------------------------------------------------
(* Several requests served at once.  The handler is an async function: it   *)
(* runs without interruption up to each await, and other requests run while *)
(* it waits for bundle(), selectComposition() or renderMedia().             *)

Jobs == {1, 2}

\* the videoData of the requests sent concurrently
ConcVideoData == {"null", "withId", "noId", "zeroId"}

IdleJob ==
    [pc |-> "idle", videoData |-> "undefined", bundledPath |-> Null, at |-> -1,
     videoId |-> "", outputPath |-> Null, status |-> 0,
     resVideoId |-> "", resOutputPath |-> Null]

InitConc ==
    /\ ServerIdle
    /\ VideoIdle
    /\ jobs = [j \in Jobs |-> IdleJob]

\* the finally block of job j on the disk d: the disks it can leave
CleanedDisks(d, j) ==
    IF NeedsCleanup(jobs[j].bundledPath)
    THEN {o.disk : o \in RmOutcomes(d, jobs[j].bundledPath)}
    ELSE {d}

\* Date.now() advances
Tick ==
    /\ clock < MaxClock
    /\ clock' = clock + 1
    /\ UNCHANGED <<variant, nodeEnv, bundles, disk, jobs, assets, fps, scenes,
                   currentFrame, branding, handlerVars>>

\* the handler up to `await bundle(...)`, or the 400 response
Arrive(j, vd) ==
    /\ jobs[j].pc = "idle"
    /\ jobs' = [jobs EXCEPT ![j] =
                  IF Truthy(vd)
                  THEN [@ EXCEPT !.pc = "bundling", !.videoData = vd]
                  ELSE [@ EXCEPT !.pc = "done", !.videoData = vd, !.status = 400]]
    /\ UNCHANGED <<variant, nodeEnv, clock, bundles, disk, assets, fps, scenes,
                   currentFrame, branding, handlerVars>>

\* bundle() settles: on to `await selectComposition(...)`, or catch and finally
BundleSettles(j) ==
    /\ jobs[j].pc = "bundling"
    /\ \E ok \in BOOLEAN :
        IF ok
        THEN /\ jobs' = [jobs EXCEPT ![j].pc = "selecting",
                                     ![j].bundledPath = BundleDirOf(bundles)]
             /\ disk' = disk \cup BundleFiles(BundleDirOf(bundles))
             /\ bundles' = bundles + 1
        ELSE /\ jobs' = [jobs EXCEPT ![j].pc = "done", ![j].status = 500]
             /\ UNCHANGED <<disk, bundles>>
    /\ UNCHANGED <<variant, nodeEnv, clock, assets, fps, scenes,
                   currentFrame, branding, handlerVars>>

\* selectComposition() settles: the output directory, videoId and outputPath,
\* on to `await renderMedia(...)`; or catch and finally
SelectSettles(j) ==
    /\ jobs[j].pc = "selecting"
    /\ \E ok \in BOOLEAN :
        IF ok
        THEN /\ jobs' = [jobs EXCEPT
                   ![j].pc = "rendering",
                   ![j].at = clock,
                   ![j].videoId = VideoId(jobs[j].videoData, clock),
                   ![j].outputPath = OutputPathOf(VideoId(jobs[j].videoData, clock))]
             /\ disk' = disk \cup {OutputDir}
        ELSE /\ jobs' = [jobs EXCEPT ![j].pc = "done", ![j].status = 500]
             /\ disk' \in CleanedDisks(disk, j)
    /\ UNCHANGED <<variant, nodeEnv, clock, bundles, assets, fps, scenes,
                   currentFrame, branding, handlerVars>>

\* renderMedia() settles: the success response, or catch; then finally
RenderSettles(j) ==
    /\ jobs[j].pc = "rendering"
    /\ \E ok \in BOOLEAN :
        IF ok
        THEN /\ jobs' = [jobs EXCEPT
                   ![j].pc = "done", ![j].status = 200,
                   ![j].resVideoId = jobs[j].videoId,
                   ![j].resOutputPath = jobs[j].outputPath]
             /\ disk' \in CleanedDisks(disk \cup RenderOutput(jobs[j].outputPath), j)
        ELSE /\ jobs' = [jobs EXCEPT ![j].pc = "done", ![j].status = 500]
             /\ disk' \in CleanedDisks(disk, j)
    /\ UNCHANGED <<variant, nodeEnv, clock, bundles, assets, fps, scenes,
                   currentFrame, branding, handlerVars>>

NextConc ==
    \/ Tick
    \/ \E j \in Jobs, vd \in ConcVideoData : Arrive(j, vd)
    \/ \E j \in Jobs : BundleSettles(j)
    \/ \E j \in Jobs : SelectSettles(j)
    \/ \E j \in Jobs : RenderSettles(j)

SpecConc == InitConc /\ [][NextConc]_vars

\* job j is between the start of its bundle step and the end of its render step
InPipeline(j) == jobs[j].pc \in {"bundling", "selecting", "rendering"}

\* job j holds a bundle location it has not cleaned up yet
UsesBundle(j) == jobs[j].pc \in {"selecting", "rendering"}

----------------------------------------------------------------------------
(* Claims about concurrent requests *)

\* C11: no two jobs in flight at the same time render to the same output path,
\* and no cleanup deletes the bundle location of another job in flight.
C11_NothingShared ==
    \A j \in Jobs, k \in Jobs :
        j # k =>
          /\ (jobs[j].pc = "rendering" /\ jobs[k].pc = "rendering")
                => jobs[j].outputPath # jobs[k].outputPath
          /\ (UsesBundle(j) /\ UsesBundle(k))
                => jobs[j].bundledPath # jobs[k].bundledPath
          /\ UsesBundle(j) => Exists(disk, jobs[j].bundledPath)

\* C12: at most one job is between the start of its bundle step and the end
\* of its render step.
C12_SingleRenderSlot ==
    Cardinality({j \in Jobs : InPipeline(j)}) <= 1

\* C17 (as claimed): the job identifier is the caller's videoId whenever one
\* is provided.
C17_ProvidedIdUsed ==
    \A j \in Jobs :
        (jobs[j].at >= 0 /\ jobs[j].videoData \in {"withId", "zeroId"})
            => jobs[j].videoId = (IF jobs[j].videoData = "withId" THEN "v1" ELSE "0")

\* C17 (amended): the job identifier is the caller's videoId when that is
\* truthy, and otherwise (videoId missing or falsy, such as 0) the identifier
\* video_<time> synthesized from the current time; the success response
\* reports that identifier and the output file is named after it; two jobs
\* with synthesized identifiers and different timestamps have different
\* identifiers.
C17_JobIdentifier ==
    \A j \in Jobs :
        jobs[j].at >= 0 =>
          /\ jobs[j].videoId = (IF jobs[j].videoData = "withId" THEN "v1"
                                ELSE "video_" \o ToString(jobs[j].at))
          /\ jobs[j].outputPath = <<"output", jobs[j].videoId \o ".mp4">>
          /\ jobs[j].status = 200
                => /\ jobs[j].resVideoId = jobs[j].videoId
                   /\ jobs[j].resOutputPath = jobs[j].outputPath
          /\ \A k \in Jobs :
                (/\ jobs[k].at >= 0
                 /\ jobs[j].videoData # "withId" /\ jobs[k].videoData # "withId"
                 /\ jobs[j].at # jobs[k].at)
                    => jobs[j].videoId # jobs[k].videoId

C17_Witness ==
    /\ jobs[1].status = 200 /\ jobs[2].status = 200
    /\ jobs[1].videoData = "noId" /\ jobs[2].videoData = "zeroId"
    /\ jobs[1].at # jobs[2].at
    /\ jobs[1].resVideoId # jobs[2].resVideoId

----------------------------------------------------------------------------
(* The cleanup step run repeatedly on one bundle location *)

\* paths that may be on the disk when the finally block is entered
CleanupPaths ==
    BundleFiles(BundleDirOf(0)) \cup BundleFiles(BundleDirOf(1))
        \cup {OutputDir, OutputPathOf("v1")}

\* a file is on the disk only inside a directory that is on the disk
Disks ==
    {d \in SUBSET CleanupPaths :
        \A q \in d : SubSeq(q, 1, Len(q) - 1) \in CleanupPaths
                          => SubSeq(q, 1, Len(q) - 1) \in d}

InitCleanup ==
    /\ VideoIdle
    /\ jobs = <<>>
    /\ variant \in Variants
    /\ nodeEnv \in NodeEnvs
    /\ req = [method |-> "POST", path |-> "/render"]
    /\ composition = NoComposition
    /\ videoId = ""
    /\ clock = 0
    /\ bundles = 0
    /\ pc = "finally"
    /\ body = [videoData |-> "withId"]
    /\ bundledPath \in {Null, BundleDirOf(0), BundleDirOf(1)}
    /\ outputPath = Null
    /\ disk \in Disks
    /\ res = NoResponse
    /\ error = NoError
    /\ escaped = NoError
    /\ trace = <<>>
    /\ run = <<>>
    /\ delivered = 0
    /\ lastLoggedProgress = 0
    /\ progressLog = <<>>
    /\ warnings = <<>>

\* the finally block is entered again with the same bundledPath
CleanupAgain ==
    /\ pc = "done"
    /\ Len(trace) < MaxCleanups
    /\ pc' = "finally"
    /\ UNCHANGED <<variant, nodeEnv, clock, req, bundles, composition, videoId,
                   otherVars>>
    /\ UNCHANGED <<body, bundledPath, outputPath, disk, res, error, escaped,
                   trace, run, delivered, lastLoggedProgress, progressLog,
                   warnings>>

NextCleanup ==
    \/ Finally
    \/ CleanupAgain

SpecCleanup == InitCleanup /\ [][NextCleanup]_vars

\* C19: a run of the cleanup step after an earlier run, when the bundle path
\* no longer exists, raises no error (no warning, nothing escapes) and leaves
\* the disk as it was.
C19_CleanupIdempotent ==
    [][(/\ pc = "finally" /\ pc' = "done"
        /\ NeedsCleanup(bundledPath)
        /\ Len(trace) >= 1
        /\ bundledPath \notin disk)
          => /\ disk' = disk
             /\ warnings' = warnings
             /\ escaped' = escaped]_vars

C19_Witness ==
    /\ pc = "done"
    /\ Len(trace) = 2
    /\ bundledPath # Null
    /\ bundledPath \notin disk
    /\ warnings = <<>>
    /\ OutputPathOf("v1") \in disk

----------------------------------------------------------------------------
(* VideoShort: the scenes computed from videoAssets *)

\* asset.duration in hundredths of a second
Durations == {0, 5, 33, 150, 200}

FrameRates == {30, 60}

AssetLists == UNION {[1..n -> Durations] : n \in 0..MaxAssets}

InitVideo ==
    /\ ServerIdle
    /\ jobs = <<>>
    /\ assets \in AssetLists
    /\ fps \in FrameRates
    /\ scenes = <<>>
    /\ currentFrame = 0
    /\ branding = NotReturned

Advance_Stuck(cur, n) == cur

\* currentFrame += durationInFrames
Advance(cur, n) == cur + n

\* one call of the videoAssets.map callback, on the next asset
MapAsset ==
    /\ Len(scenes) < Len(assets)
    /\ LET durationInFrames == SceneFrames(assets[Len(scenes) + 1], fps)
       IN /\ scenes' = Append(scenes, [duration |-> assets[Len(scenes) + 1],
                                       from |-> currentFrame,
                                       durationInFrames |-> durationInFrames])
          /\ currentFrame' = Advance(currentFrame, durationInFrames)
    /\ UNCHANGED <<variant, nodeEnv, clock, bundles, disk, jobs, assets, fps,
                   branding, handlerVars>>

\* const totalDuration = currentFrame, once every asset is mapped
totalDuration == currentFrame

\* fps * 3
BrandingFrames(f) == f * 3

Max(a, b) == IF a >= b THEN a ELSE b

BrandingFrom_Start(rev, total, f) == 0

\* from={Math.max(0, totalDuration - (fps * 3))} in Video.jsx,
\* from={totalDuration - (fps * 3)} in the older revision
BrandingFrom(rev, total, f) ==
    IF rev = "Video.jsx" THEN Max(0, total - BrandingFrames(f))
    ELSE total - BrandingFrames(f)

\* {totalDuration > 0 && <Sequence from=... durationInFrames={fps * 3}>}
BrandingOf(rev, total, f) ==
    IF total > 0
    THEN [state |-> "shown", rev |-> rev, from |-> BrandingFrom(rev, total, f),
          durationInFrames |-> BrandingFrames(f)]
    ELSE [state |-> "none", rev |-> rev, from |-> 0, durationInFrames |-> 0]

\* the return statement of VideoShort, after every asset is mapped
ReturnTree ==
    /\ Len(scenes) = Len(assets)
    /\ branding = NotReturned
    /\ \E rev \in VideoRevisions : branding' = BrandingOf(rev, totalDuration, fps)
    /\ UNCHANGED <<variant, nodeEnv, clock, bundles, disk, jobs, assets, fps,
                   scenes, currentFrame, handlerVars>>

NextVideo ==
    \/ MapAsset
    \/ ReturnTree

SpecVideo == InitVideo /\ [][NextVideo]_vars

RECURSIVE SumOfSceneFrames(_)
SumOfSceneFrames(ss) ==
    IF ss = <<>> THEN 0
    ELSE Head(ss).durationInFrames + SumOfSceneFrames(Tail(ss))

\* C20: the scenes are in input order, the first starts at frame 0, each
\* following one starts at the previous start plus the previous
\* durationInFrames, which is floor(duration * fps), and totalDuration is the
\* sum of the scenes' frame counts.
C20_ContiguousTimeline ==
    /\ Len(scenes) <= Len(assets)
    /\ \A i \in 1..Len(scenes) :
          /\ scenes[i].duration = assets[i]
          /\ scenes[i].durationInFrames * 100 <= assets[i] * fps
          /\ assets[i] * fps < (scenes[i].durationInFrames + 1) * 100
          /\ scenes[i].from =
                IF i = 1 THEN 0
                ELSE scenes[i - 1].from + scenes[i - 1].durationInFrames
    /\ Len(scenes) = Len(assets) => totalDuration = SumOfSceneFrames(scenes)

C20_Witness ==
    /\ Len(assets) >= 2
    /\ Len(scenes) = Len(assets)
    /\ scenes[2].from > 0
    /\ scenes[1].durationInFrames * 100 < assets[1] * fps
    /\ totalDuration > scenes[2].from

\* C21 (as claimed): whenever totalDuration > 0 the branding sequence lasts
\* 3*fps frames, starts at a frame >= 0 and ends exactly at totalDuration;
\* when totalDuration is 0 there is none.
C21_BrandingEndsAtTotal ==
    branding.state # "pending" =>
        /\ (branding.state = "none") <=> (totalDuration = 0)
        /\ branding.state = "shown" =>
              /\ branding.durationInFrames = 3 * fps
              /\ branding.from >= 0
              /\ branding.from + branding.durationInFrames = totalDuration

\* C21 (amended): whenever totalDuration > 0 the branding sequence lasts
\* 3*fps frames; when totalDuration >= 3*fps it starts at totalDuration - 3*fps
\* and ends exactly at totalDuration; when 0 < totalDuration < 3*fps it starts
\* at frame 0 and ends at 3*fps, after totalDuration (in the older revision it
\* starts at the negative frame totalDuration - 3*fps); when totalDuration is
\* 0 there is none.
C21_BrandingTail ==
    branding.state # "pending" =>
        /\ (branding.state = "none") <=> (totalDuration = 0)
        /\ branding.state = "shown" =>
              /\ branding.durationInFrames = 3 * fps
              /\ totalDuration >= 3 * fps =>
                    /\ branding.from = totalDuration - 3 * fps
                    /\ branding.from + branding.durationInFrames = totalDuration
              /\ (totalDuration < 3 * fps /\ branding.rev = "Video.jsx") =>
                    /\ branding.from = 0
                    /\ branding.from + branding.durationInFrames > totalDuration
              /\ (totalDuration < 3 * fps /\ branding.rev = "part_001") =>
                    /\ branding.from = totalDuration - 3 * fps
                    /\ branding.from < 0

C21_Witness ==
    /\ branding.state = "shown"
    /\ branding.rev = "Video.jsx"
    /\ totalDuration < 3 * fps
    /\ Len(assets) >= 2
    /\ branding.from = 0

\* C22: a POST /render request never gets a second response, and, provided
\* every engine step returns or throws, it ends with exactly one response
\* sent and its cleanup step behind it.
C22_ExactlyOneResponse ==
    /\ [](Len(SelectSeq(trace, IsResponse)) <= 1)
    /\ (pc = "try") ~> (/\ pc \in {"done", "handled"}
                        /\ Len(SelectSeq(trace, IsResponse)) = 1
                        /\ res.status # 0
                        /\ bundledPath # Null => Count("rmSync") = 1)

C22_Witness ==
    /\ pc = "done"
    /\ error = RespondError
    /\ trace[Len(trace)] = "rmSync"
    /\ Len(SelectSeq(trace, IsResponse)) = 1
    /\ res.status = 500

\* C23: the file the render step is told to write is a direct child of the
\* output directory, named <videoId>.mp4, for every caller-supplied videoId.
C23_InsideOutputDir ==
    outputPath # Null =>
        /\ Len(outputPath) = Len(OutputDir) + 1
        /\ SubSeq(outputPath, 1, Len(OutputDir)) = OutputDir
        /\ outputPath[Len(outputPath)] = videoId \o ".mp4"

====
